---- MODULE Spec2Model ----
(***************************************************************************)
(* Model of the CNS volume manager of the vSphere CSI driver               *)
(* (pkg/common/cns-lib/volume/manager.go): the GetManager singleton, the   *)
(* seven volume operations, the shared VirtualCenter connection they set   *)
(* up, and the CNS control plane they submit tasks to.                     *)
(***************************************************************************)
EXTENDS Integers, Sequences, FiniteSets, TLC

\* ------------------------------------------------------------------------
\* Bounds and input domains
\* ------------------------------------------------------------------------
NumCallers == 2
Procs == 1..NumCallers
SeqCaller == CHOOSE p \in Procs : \A q \in Procs : p <= q

Volumes == {"vol-1", "vol-2"}
VMs == {"vm-1", "vm-2"}
Users == {"svc-a", "svc-b"}
NilVC == "nil"
VCs == {NilVC, "vc-1"}
NilMgr == "nil"
TheManager == "volumeManager#1"

RaceVC == "vc-1"
RaceUser == "svc-a"
RaceVM == "vm-1"
RaceVolume == "vol-1"

\* ------------------------------------------------------------------------
\* Errors.  A Go error made by errors.New(msg) is its message.
\* ------------------------------------------------------------------------
Nil == [isNil |-> TRUE, msg |-> ""]
Err(m) == [isNil |-> FALSE, msg |-> m]

CNSVolumeResourceInUseFaultMessage == "The resource 'volume' is in use."
ErrManagerNotInitialized == "virtual center connection not established"
ErrEmptyTaskResult == "taskResult is empty"
ErrConnect == "ConnectCNS: login failed"
ErrSession == "UserSession: request failed"
ErrTransport == "cns: submission failed"
ErrTaskInfo == "GetTaskInfo: request failed"
ErrTaskResult == "GetTaskResult: unexpected result"
ErrDevice == "vm.Device: request failed"
ErrContext == "context canceled"
FaultNotFound == "The object has already been deleted or has not been completely created"

\* Messages a remote Fault can carry.
FaultMessages == {CNSVolumeResourceInUseFaultMessage, FaultNotFound, ErrEmptyTaskResult}

\* ------------------------------------------------------------------------
\* Operations and their arguments
\* ------------------------------------------------------------------------
SpecOps == {"CreateVolume", "UpdateVolumeMetadata"}
TaskOps == {"CreateVolume", "AttachVolume", "DetachVolume", "DeleteVolume", "UpdateVolumeMetadata"}
QueryOps == {"QueryVolume", "QueryAllVolume"}
AllOps == TaskOps \cup QueryOps

\* CnsVolumeCreateSpec / CnsVolumeMetadataUpdateSpec, flattened:
\* Name, VolumeId.Id, Metadata.ContainerCluster.{ClusterId,VSphereUser}.
NoSpec == [Name |-> "", VolumeId |-> "", ClusterId |-> "", VSphereUser |-> ""]
CreateSpecs == {[Name |-> "pvc-1", VolumeId |-> "", ClusterId |-> "cluster-1", VSphereUser |-> u] : u \in Users}
UpdateSpecs == {[Name |-> "", VolumeId |-> v, ClusterId |-> "cluster-1", VSphereUser |-> u] : v \in Volumes, u \in Users}

NoCall == [op |-> "none", vc |-> NilVC, vm |-> "", vol |-> "", deleteDisk |-> FALSE, spec |-> NoSpec, filter |-> {}]
MkCall(o, vm, vol, dd, s, f) == [op |-> o, vc |-> NilVC, vm |-> vm, vol |-> vol, deleteDisk |-> dd, spec |-> s, filter |-> f]

AllCalls ==
    {MkCall("CreateVolume", "", "", FALSE, s, {}) : s \in CreateSpecs}
    \cup {MkCall("UpdateVolumeMetadata", "", "", FALSE, s, {}) : s \in UpdateSpecs}
    \cup {MkCall("AttachVolume", vm, v, FALSE, NoSpec, {}) : vm \in VMs, v \in Volumes}
    \cup {MkCall("DetachVolume", vm, v, FALSE, NoSpec, {}) : vm \in VMs, v \in Volumes}
    \cup {MkCall("DeleteVolume", "", v, dd, NoSpec, {}) : v \in Volumes, dd \in BOOLEAN}
    \cup {MkCall(o, "", "", FALSE, NoSpec, Volumes) : o \in QueryOps}

RaceCalls == {MkCall("AttachVolume", RaceVM, RaceVolume, FALSE, NoSpec, {})}

\* ------------------------------------------------------------------------
\* Control-plane data
\* ------------------------------------------------------------------------
\* A virtual device of a VM: its type name, its VDiskId.Id ("" when VDiskId
\* is nil) and the UUID of its disk backing.
Device(t, id, uuid) == [type |-> t, vDiskId |-> id, diskUUID |-> uuid]
BaseDevices == << Device("VirtualE1000", "", ""), Device("VirtualDisk", "", "6000C29b-boot") >>
\* The backing UUID of the first-class disk of a volume.
BackingUUID(v) == IF v = "vol-1" THEN "6000C291-0001" ELSE "6000C292-0002"

NoResult == [kind |-> "none", volumeId |-> "", diskUUID |-> "", fault |-> ""]
NilResult == [kind |-> "nil", volumeId |-> "", diskUUID |-> "", fault |-> ""]
OkResult(v, uuid) == [kind |-> "ok", volumeId |-> v, diskUUID |-> uuid, fault |-> ""]
FaultResult(v, m) == [kind |-> "fault", volumeId |-> v, diskUUID |-> "", fault |-> m]

\* One element of the batch handed to a CnsClient method.
BatchElem(name, vol, vm, cluster, user) ==
    [Name |-> name, VolumeId |-> vol, Vm |-> vm, ClusterId |-> cluster, VSphereUser |-> user]

NoTask == [state |-> "none", op |-> "none", batch |-> << >>, deleteDisk |-> FALSE, result |-> NoResult]
Terminal == {"succeeded", "faulted"}

NoLoc == [s |-> "", activationId |-> "", taskResult |-> NoResult]
NoRet == [op |-> "none", val |-> "", res |-> {}, err |-> Nil]
NoCtx == [state |-> "none", deadline |-> "none"]

VARIABLES
    onceForManager,    \* sync.Once: "fresh", "running", "done"
    managerInstance,   \* the singleton: [id, virtualCenter]
    mgr,               \* mgr[p]: the Manager p holds (NilMgr before GetManager)
    connection,        \* the VirtualCenter's connection: "none", "live", "stale"
    connLock,          \* holders of the connection mutex
    sessionUser,       \* UserName of the live session
    liveSessions,      \* callers whose login produced a session that is live
    pc,                \* pc[p]: position of p in its current call
    call,              \* call[p]: operation and arguments of the current/last call
    callerSpec,        \* callerSpec[p]: the spec object the caller passed by pointer
    ctx,               \* ctx[p]: the context of the current call
    loc,               \* loc[p]: locals of the current call
    log,               \* log[p]: remote interactions of the current/last call
    ret,               \* ret[p]: what the last call returned
    tasks,             \* tasks[p]: the CNS task submitted by p's call
    cnsVolumes,        \* volumes that exist in the control plane
    vmDevices,         \* vmDevices[vm]: device list of the VM
    tpc,               \* position of the e2e topology helper: "idle", "called", "returned"
    topologyString,    \* the descriptor passed to topologyParameterForStorageClass
    topologyMap,       \* the map createTopologyMap returned
    regionValues,      \* first value returned
    zoneValues,        \* second value returned
    allowedTopologies, \* third value returned
    vpc,               \* position of the e2e verification helper: "idle", "called", "returned", "aborted"
    vcall,             \* the verification helper called and its arguments
    asserts,           \* the gomega assertions made, in order
    vret               \* what the verification helper returned

vars == << onceForManager, managerInstance, mgr, connection, connLock, sessionUser,
           liveSessions, pc, call, callerSpec, ctx, loc, log, ret, tasks,
           cnsVolumes, vmDevices,
           tpc, topologyString, topologyMap, regionValues, zoneValues, allowedTopologies,
           vpc, vcall, asserts, vret >>

volVars == << onceForManager, managerInstance, mgr, connection, connLock, sessionUser,
              liveSessions, pc, call, callerSpec, ctx, loc, log, ret, tasks,
              cnsVolumes, vmDevices >>
e2eVars == << tpc, topologyString, topologyMap, regionValues, zoneValues, allowedTopologies,
             vpc, vcall, asserts, vret >>
topoVars == << tpc, topologyString, topologyMap, regionValues, zoneValues, allowedTopologies >>
verVars == << vpc, vcall, asserts, vret >>

mgrVars == << onceForManager, managerInstance, mgr >>
connVars == << connection, connLock, sessionUser, liveSessions >>
cnsVars == << tasks, cnsVolumes, vmDevices >>

NoManager == [id |-> NilMgr, virtualCenter |-> NilVC]

\* verifyVolumeTopology(pv, zoneValues, regionValues) and
\* verifyPodLocation(pod, nodeList, zoneValue, regionValue), flattened.
NoAffinity == [isNil |-> TRUE, requiredIsNil |-> TRUE, NodeSelectorTerms |-> << >>]
NoVCall == [op |-> "none", NodeAffinity |-> NoAffinity, zoneValues |-> << >>, regionValues |-> << >>,
            NodeName |-> "", nodeList |-> << >>, zoneValue |-> "", regionValue |-> ""]
NoVRet == [region |-> "", zone |-> "", err |-> Nil]

InitVerifyIdle ==
    /\ vpc = "idle"
    /\ vcall = NoVCall
    /\ asserts = << >>
    /\ vret = NoVRet

InitTopoIdle ==
    /\ tpc = "idle"
    /\ topologyString = << >>
    /\ topologyMap = << >>
    /\ regionValues = << >>
    /\ zoneValues = << >>
    /\ allowedTopologies = << >>

\* The e2e helpers have not been called.
InitE2EIdle == InitTopoIdle /\ InitVerifyIdle

\* No manager, no connection, an empty control plane.
InitVolume ==
    /\ onceForManager = "fresh"
    /\ managerInstance = NoManager
    /\ mgr = [p \in Procs |-> NilMgr]
    /\ connection = "none"
    /\ connLock = {}
    /\ sessionUser = ""
    /\ liveSessions = {}
    /\ pc = [p \in Procs |-> "idle"]
    /\ call = [p \in Procs |-> NoCall]
    /\ callerSpec = [p \in Procs |-> NoSpec]
    /\ ctx = [p \in Procs |-> NoCtx]
    /\ loc = [p \in Procs |-> NoLoc]
    /\ log = [p \in Procs |-> << >>]
    /\ ret = [p \in Procs |-> NoRet]
    /\ tasks = [p \in Procs |-> NoTask]
    /\ cnsVolumes = {}
    /\ vmDevices = [vm \in VMs |-> BaseDevices]

Init == InitVolume /\ InitE2EIdle

\* ------------------------------------------------------------------------
\* GetManager
\* ------------------------------------------------------------------------
\* onceForManager.Do: the first caller runs the initializer, a caller that
\* arrives while it runs waits, a caller that arrives later skips it.
RunsInitializerAlways(once) == TRUE
RunsInitializer(once) == once = "fresh"

GetManagerEnter(p, vc) ==
    /\ pc[p] = "idle"
    /\ onceForManager # "running"
    /\ IF RunsInitializer(onceForManager)
         THEN /\ onceForManager' = "running"
              /\ pc' = [pc EXCEPT ![p] = "gm_init"]
         ELSE /\ onceForManager' = onceForManager
              /\ pc' = [pc EXCEPT ![p] = "gm_ret"]
    /\ call' = [call EXCEPT ![p] = [NoCall EXCEPT !.op = "GetManager", !.vc = vc]]
    /\ callerSpec' = [callerSpec EXCEPT ![p] = NoSpec]
    /\ log' = [log EXCEPT ![p] = << >>]
    /\ ret' = [ret EXCEPT ![p] = NoRet]
    /\ UNCHANGED << managerInstance, mgr, ctx, loc >>
    /\ UNCHANGED connVars
    /\ UNCHANGED cnsVars
    /\ UNCHANGED e2eVars

GetManagerInit(p) ==
    /\ pc[p] = "gm_init"
    /\ managerInstance' = [id |-> TheManager, virtualCenter |-> call[p].vc]
    /\ onceForManager' = "done"
    /\ pc' = [pc EXCEPT ![p] = "gm_ret"]
    /\ UNCHANGED << mgr, call, callerSpec, ctx, loc, log, ret >>
    /\ UNCHANGED connVars
    /\ UNCHANGED cnsVars
    /\ UNCHANGED e2eVars

GetManagerReturn(p) ==
    /\ pc[p] = "gm_ret"
    /\ mgr' = [mgr EXCEPT ![p] = managerInstance.id]
    /\ ret' = [ret EXCEPT ![p] = [NoRet EXCEPT !.op = "GetManager", !.val = managerInstance.id]]
    /\ pc' = [pc EXCEPT ![p] = "idle"]
    /\ UNCHANGED << onceForManager, managerInstance, call, callerSpec, ctx, loc, log >>
    /\ UNCHANGED connVars
    /\ UNCHANGED cnsVars
    /\ UNCHANGED e2eVars

\* ------------------------------------------------------------------------
\* Helpers of the operations
\* ------------------------------------------------------------------------
Append1(p, name, ok) == [log EXCEPT ![p] = Append(log[p], [call |-> name, ok |-> ok])]

\* validateManager(m): the manager has a VirtualCenter.
validateManager(m) ==
    IF m.virtualCenter = NilVC THEN Err(ErrManagerNotInitialized) ELSE Nil

\* "if err != nil { return ..., err }" after validateManager.
ProceedAfterValidateAlways(err) == TRUE
ProceedAfterValidate(err) == err.isNil

\* "if err != nil { return ..., err }" after ConnectCNS.
ProceedAfterConnectAlways(err) == TRUE
ProceedAfterConnect(err) == err.isNil

\* "if err != nil { return ..., err }" after SessionManager.UserSession.
ProceedAfterSessionAlways(err) == TRUE
ProceedAfterSession(err) == err.isNil

\* "if err != nil { return ..., err }" after the CnsClient method.
ProceedAfterSubmitAlways(err) == TRUE
ProceedAfterSubmit(err) == err.isNil

\* After the submission the operation waits for the task (cns.GetTaskInfo).
PcAfterSubmitNoWait == "result"
PcAfterSubmit == "await"

\* "if taskResult == nil"
IsEmptyResultNever(r) == FALSE
IsEmptyResult(r) == r.kind = "nil"

\* "if volumeOperationRes.Fault != nil"
HasFaultNever(r) == FALSE
HasFault(r) == r.kind = "fault"

\* Only AttachVolume compares the Fault with the in-use message.
RecoversInUseAnyOp(op) == op \in TaskOps
RecoversInUse(op) == op = "AttachVolume"

\* ConnectCNS takes the connection mutex before it looks at the client.
CanAcquireUnguarded(lock) == TRUE
CanAcquire(lock) == lock = {}

\* The VSphereUser the spec carries after the comparison with s.UserName.
CorrectUserKeep(specUser, userName) == specUser
CorrectUser(specUser, userName) ==
    IF userName # specUser THEN userName ELSE specUser

\* spec.Metadata.ContainerCluster.VSphereUser = s.UserName, in the caller's
\* spec object.
CorrectSpecFresh(spec, userName) == [NoSpec EXCEPT !.VSphereUser = userName]
CorrectSpec(spec, userName) == [spec EXCEPT !.VSphereUser = CorrectUser(@, userName)]

\* The CnsVolumeId.Id CreateVolume returns for a result without Fault.
CreateReturnName(spec, res) == spec.Name
CreateReturn(spec, res) == res.volumeId

\* The DiskUUID AttachVolume returns for a result without Fault.
AttachReturnVolumeId(res) == res.volumeId
AttachReturn(res) == res.diskUUID

\* Fault.LocalizedMessage == CNSVolumeResourceInUseFaultMessage
IsInUseFaultAny(msg) == TRUE
IsInUseFault(msg) == msg = CNSVolumeResourceInUseFaultMessage

\* Indexes of the VirtualDisk devices whose VDiskId.Id is the volume id.
MatchingDisks(devs, volumeID) ==
    {i \in 1..Len(devs) : devs[i].type = "VirtualDisk" /\ devs[i].vDiskId = volumeID}

\* GetDiskAttachedToVM: the DiskUUID of the first matching virtual disk,
\* "" when the VM has none.
GetDiskAttachedToVM(devs, volumeID) ==
    LET m == MatchingDisks(devs, volumeID)
    IN  IF m = {} THEN "" ELSE devs[CHOOSE i \in m : \A j \in m : i <= j].diskUUID

\* AttachVolume after the in-use fault and a lookup that returned diskUUID.
AttachRecoverNever(diskUUID, faultMsg) == [val |-> "", err |-> Err(faultMsg)]
AttachRecoverAlways(diskUUID, faultMsg) == [val |-> diskUUID, err |-> Nil]
AttachRecover(diskUUID, faultMsg) ==
    IF diskUUID # ""
      THEN [val |-> diskUUID, err |-> Nil]
      ELSE [val |-> "", err |-> Err(faultMsg)]

\* The one-element list the operation hands to the CnsClient.
BuildBatchPair(c, spec) ==
    << BatchElem("", c.vol, c.vm, "", ""), BatchElem("", c.vol, c.vm, "", "") >>
BuildBatch(c, spec) ==
    CASE c.op = "CreateVolume" ->
           << BatchElem(spec.Name, spec.VolumeId, "", spec.ClusterId, spec.VSphereUser) >>
      [] c.op = "UpdateVolumeMetadata" ->
           << BatchElem("", spec.VolumeId, "", spec.ClusterId, spec.VSphereUser) >>
      [] c.op \in {"AttachVolume", "DetachVolume"} ->
           << BatchElem("", c.vol, c.vm, "", "") >>
      [] OTHER ->
           << BatchElem("", c.vol, "", "", "") >>

ActivationIdOf(p) == "opId-" \o ToString(p)

PcAfterConnect(op) == IF op \in SpecOps THEN "session" ELSE "submit"

\* After validateManager every operation calls m.virtualCenter.ConnectCNS.
PcAfterValidateOnce(op, conn) == IF conn = "none" THEN "connect" ELSE PcAfterConnect(op)
PcAfterValidate(op, conn) == "connect"

\* return from the operation: the deferred cancel() runs.
Return(p, val, res, err) ==
    /\ pc' = [pc EXCEPT ![p] = "idle"]
    /\ ret' = [ret EXCEPT ![p] = [op |-> call[p].op, val |-> val, res |-> res, err |-> err]]
    /\ ctx' = [ctx EXCEPT ![p] = [state |-> "cancelled", deadline |-> "none"]]
    /\ loc' = [loc EXCEPT ![p] = NoLoc]

\* ------------------------------------------------------------------------
\* The operations, step by step
\* ------------------------------------------------------------------------
\* Entry of any of the seven operations: validateManager, then the context.
\* A caller whose previous call gave up on a task that is still running
\* calls again once the control plane has finished that task; the finished
\* task of the previous call is forgotten.
CallOp(p, c) ==
    /\ pc[p] = "idle"
    /\ mgr[p] # NilMgr
    /\ call' = [call EXCEPT ![p] = c]
    /\ callerSpec' = [callerSpec EXCEPT ![p] = c.spec]
    /\ log' = [log EXCEPT ![p] = << >>]
    /\ LET err == validateManager(managerInstance)
       IN  IF ProceedAfterValidate(err)
             THEN /\ pc' = [pc EXCEPT ![p] = PcAfterValidate(c.op, connection)]
                  /\ ret' = [ret EXCEPT ![p] = NoRet]
                  /\ ctx' = [ctx EXCEPT ![p] = [state |-> "active", deadline |-> "none"]]
                  /\ loc' = [loc EXCEPT ![p] = NoLoc]
             ELSE /\ pc' = pc
                  /\ ret' = [ret EXCEPT ![p] = [op |-> c.op, val |-> "", res |-> {}, err |-> err]]
                  /\ ctx' = [ctx EXCEPT ![p] = NoCtx]
                  /\ loc' = [loc EXCEPT ![p] = NoLoc]
    /\ tasks[p].state # "running"
    /\ tasks' = [tasks EXCEPT ![p] = NoTask]
    /\ UNCHANGED << cnsVolumes, vmDevices >>
    /\ UNCHANGED mgrVars
    /\ UNCHANGED connVars
    /\ UNCHANGED e2eVars

\* m.virtualCenter.ConnectCNS(ctx): lock, then use the live connection ...
ConnectCNSEnter(p) ==
    /\ pc[p] = "connect"
    /\ CanAcquire(connLock)
    /\ IF connection = "live"
         THEN /\ pc' = [pc EXCEPT ![p] = PcAfterConnect(call[p].op)]
              /\ log' = Append1(p, "ConnectCNS", TRUE)
              /\ connLock' = connLock
         ELSE /\ pc' = [pc EXCEPT ![p] = "cc_dial"]
              /\ log' = log
              /\ connLock' = connLock \cup {p}
    /\ UNCHANGED << connection, sessionUser, liveSessions >>
    /\ UNCHANGED << call, callerSpec, ctx, loc, ret >>
    /\ UNCHANGED mgrVars
    /\ UNCHANGED cnsVars
    /\ UNCHANGED e2eVars

\* ... or log in (again), which can fail; unlock.
ConnectCNSDial(p, ok, u) ==
    /\ pc[p] = "cc_dial"
    /\ connLock' = connLock \ {p}
    /\ log' = Append1(p, "ConnectCNS", ok)
    /\ IF ok
         THEN /\ connection' = "live"
              /\ sessionUser' = u
              /\ liveSessions' = liveSessions \cup {p}
         ELSE UNCHANGED << connection, sessionUser, liveSessions >>
    /\ LET err == IF ok THEN Nil ELSE Err(ErrConnect)
       IN  IF ProceedAfterConnect(err)
             THEN /\ pc' = [pc EXCEPT ![p] = PcAfterConnect(call[p].op)]
                  /\ UNCHANGED << ret, ctx, loc >>
             ELSE Return(p, "", {}, err)
    /\ UNCHANGED << call, callerSpec >>
    /\ UNCHANGED mgrVars
    /\ UNCHANGED cnsVars
    /\ UNCHANGED e2eVars

\* SessionManager.UserSession(ctx) and the VSphereUser correction.
UserSession(p, ok) ==
    /\ pc[p] = "session"
    /\ log' = Append1(p, "UserSession", ok)
    /\ LET err == IF ok THEN Nil ELSE Err(ErrSession)
           userName == IF ok THEN sessionUser ELSE ""
       IN  IF ProceedAfterSession(err)
             THEN /\ loc' = [loc EXCEPT ![p].s = userName]
                  /\ callerSpec' = [callerSpec EXCEPT ![p] = CorrectSpec(@, userName)]
                  /\ pc' = [pc EXCEPT ![p] = "submit"]
                  /\ UNCHANGED << ret, ctx >>
             ELSE /\ Return(p, "", {}, err)
                  /\ callerSpec' = callerSpec
    /\ UNCHANGED call
    /\ UNCHANGED mgrVars
    /\ UNCHANGED connVars
    /\ UNCHANGED cnsVars
    /\ UNCHANGED e2eVars

\* CnsClient.{Create,Attach,Detach,Delete}Volume / UpdateVolumeMetadata.
Submit(p, ok) ==
    /\ pc[p] = "submit"
    /\ call[p].op \in TaskOps
    /\ log' = Append1(p, "Submit", ok)
    /\ tasks' = IF ok
                  THEN [tasks EXCEPT ![p] =
                          [state |-> "running", op |-> call[p].op,
                           batch |-> BuildBatch(call[p], callerSpec[p]),
                           deleteDisk |-> call[p].deleteDisk, result |-> NoResult]]
                  ELSE tasks
    /\ LET err == IF ok THEN Nil ELSE Err(ErrTransport)
       IN  IF ProceedAfterSubmit(err)
             THEN /\ pc' = [pc EXCEPT ![p] = PcAfterSubmit]
                  /\ UNCHANGED << ret, ctx, loc >>
             ELSE Return(p, "", {}, err)
    /\ UNCHANGED << call, callerSpec, cnsVolumes, vmDevices >>
    /\ UNCHANGED mgrVars
    /\ UNCHANGED connVars
    /\ UNCHANGED e2eVars

\* CnsClient.QueryVolume / QueryAllVolume.
Query(p, ok) ==
    /\ pc[p] = "submit"
    /\ call[p].op \in QueryOps
    /\ log' = Append1(p, "Query", ok)
    /\ IF ok
         THEN Return(p, "", cnsVolumes \cap call[p].filter, Nil)
         ELSE Return(p, "", {}, Err(ErrTransport))
    /\ UNCHANGED << call, callerSpec >>
    /\ UNCHANGED mgrVars
    /\ UNCHANGED connVars
    /\ UNCHANGED cnsVars
    /\ UNCHANGED e2eVars

\* cns.GetTaskInfo(ctx, task): waits for the task unless the context is
\* done or the request fails.
GetTaskInfo(p, ok) ==
    /\ pc[p] = "await"
    /\ IF ctx[p].state = "cancelled"
         THEN /\ log' = Append1(p, "GetTaskInfo", FALSE)
              /\ Return(p, "", {}, Err(ErrContext))
         ELSE IF ok
           THEN /\ tasks[p].state \in Terminal
                /\ log' = Append1(p, "GetTaskInfo", TRUE)
                /\ loc' = [loc EXCEPT ![p].activationId = ActivationIdOf(p),
                                      ![p].taskResult = tasks[p].result]
                /\ pc' = [pc EXCEPT ![p] = "result"]
                /\ UNCHANGED << ret, ctx >>
           ELSE /\ log' = Append1(p, "GetTaskInfo", FALSE)
                /\ Return(p, "", {}, Err(ErrTaskInfo))
    /\ UNCHANGED << call, callerSpec >>
    /\ UNCHANGED mgrVars
    /\ UNCHANGED connVars
    /\ UNCHANGED cnsVars
    /\ UNCHANGED e2eVars

\* cns.GetTaskResult(ctx, taskInfo) and what the operation makes of it.
GetTaskResult(p, ok) ==
    /\ pc[p] = "result"
    /\ log' = Append1(p, "GetTaskResult", ok)
    /\ LET r == loc[p].taskResult
           op == call[p].op
       IN  IF ~ok THEN Return(p, "", {}, Err(ErrTaskResult))
           ELSE IF IsEmptyResult(r) THEN Return(p, "", {}, Err(ErrEmptyTaskResult))
           ELSE IF HasFault(r)
             THEN IF RecoversInUse(op) /\ IsInUseFault(r.fault)
                    THEN /\ pc' = [pc EXCEPT ![p] = "lookup"]
                         /\ UNCHANGED << ret, ctx, loc >>
                    ELSE Return(p, "", {}, Err(r.fault))
           ELSE IF op = "CreateVolume" THEN Return(p, CreateReturn(callerSpec[p], r), {}, Nil)
           ELSE IF op = "AttachVolume" THEN Return(p, AttachReturn(r), {}, Nil)
           ELSE Return(p, "", {}, Nil)
    /\ UNCHANGED << call, callerSpec >>
    /\ UNCHANGED mgrVars
    /\ UNCHANGED connVars
    /\ UNCHANGED cnsVars
    /\ UNCHANGED e2eVars

\* GetDiskAttachedToVM(ctx, vm, volumeID) after the in-use fault.
LookupDisk(p, ok) ==
    /\ pc[p] = "lookup"
    /\ log' = Append1(p, "GetDiskAttachedToVM", ok)
    /\ IF ok
         THEN LET diskUUID == GetDiskAttachedToVM(vmDevices[call[p].vm], call[p].vol)
                  out == AttachRecover(diskUUID, loc[p].taskResult.fault)
              IN  Return(p, out.val, {}, out.err)
         ELSE Return(p, "", {}, Err(ErrDevice))
    /\ UNCHANGED << call, callerSpec >>
    /\ UNCHANGED mgrVars
    /\ UNCHANGED connVars
    /\ UNCHANGED cnsVars
    /\ UNCHANGED e2eVars

\* ------------------------------------------------------------------------
\* The environment: the CNS control plane and the vCenter session
\* ------------------------------------------------------------------------
InUse(v) == \E vm \in VMs : MatchingDisks(vmDevices[vm], v) # {}

RemoveDisk(devs, v) ==
    SelectSeq(devs, LAMBDA d : ~(d.type = "VirtualDisk" /\ d.vDiskId = v))

NoEffect(r) == [result |-> r, vols |-> cnsVolumes, devs |-> vmDevices]
Faults(e, msgs) == {NoEffect(FaultResult(e.VolumeId, m)) : m \in msgs}

\* What the control plane can make of a running task: the operation takes
\* effect and succeeds, or it faults, or the task ends without a result.
CnsOutcomes(t) ==
    LET e == t.batch[1]
        v == e.VolumeId
    IN  {NoEffect(NilResult)} \cup
        CASE t.op = "CreateVolume" ->
               {[result |-> OkResult(n, ""), vols |-> cnsVolumes \cup {n}, devs |-> vmDevices] :
                   n \in Volumes \ cnsVolumes}
               \cup Faults(e, FaultMessages)
          [] t.op = "AttachVolume" ->
               IF v \notin cnsVolumes THEN Faults(e, {FaultNotFound})
               ELSE IF InUse(v) THEN Faults(e, {CNSVolumeResourceInUseFaultMessage})
               ELSE {[result |-> OkResult(v, BackingUUID(v)), vols |-> cnsVolumes,
                      devs |-> [vmDevices EXCEPT ![e.Vm] =
                                   Append(@, Device("VirtualDisk", v, BackingUUID(v)))]]}
                    \cup Faults(e, FaultMessages \ {CNSVolumeResourceInUseFaultMessage})
          [] t.op = "DetachVolume" ->
               IF MatchingDisks(vmDevices[e.Vm], v) # {}
                 THEN {[result |-> OkResult(v, ""), vols |-> cnsVolumes,
                        devs |-> [vmDevices EXCEPT ![e.Vm] = RemoveDisk(@, v)]]}
                      \cup Faults(e, FaultMessages)
                 ELSE Faults(e, FaultMessages)
          [] t.op = "DeleteVolume" ->
               IF v \notin cnsVolumes THEN Faults(e, {FaultNotFound})
               ELSE IF InUse(v) THEN Faults(e, {CNSVolumeResourceInUseFaultMessage})
               ELSE {[result |-> OkResult(v, ""), vols |-> cnsVolumes \ {v}, devs |-> vmDevices]}
                    \cup Faults(e, FaultMessages)
          [] OTHER ->
               IF v \in cnsVolumes
                 THEN {NoEffect(OkResult(v, ""))} \cup Faults(e, FaultMessages)
                 ELSE Faults(e, FaultMessages)

\* The control plane finishes the task p submitted.
CnsTaskResolve(p) ==
    /\ tasks[p].state = "running"
    /\ \E o \in CnsOutcomes(tasks[p]) :
          /\ tasks' = [tasks EXCEPT ![p].result = o.result,
                                    ![p].state = IF o.result.kind = "fault"
                                                   THEN "faulted" ELSE "succeeded"]
          /\ cnsVolumes' = o.vols
          /\ vmDevices' = o.devs
    /\ UNCHANGED << pc, call, callerSpec, ctx, loc, log, ret >>
    /\ UNCHANGED mgrVars
    /\ UNCHANGED connVars
    /\ UNCHANGED e2eVars

\* The session of the connection expires on the server.
SessionExpires ==
    /\ connection = "live"
    /\ connection' = "stale"
    /\ liveSessions' = {}
    /\ UNCHANGED << connLock, sessionUser >>
    /\ UNCHANGED << pc, call, callerSpec, ctx, loc, log, ret >>
    /\ UNCHANGED mgrVars
    /\ UNCHANGED cnsVars
    /\ UNCHANGED e2eVars

\* ------------------------------------------------------------------------
\* Specifications
\* ------------------------------------------------------------------------
\* One caller issuing any sequence of calls of all operations.
Next ==
    \/ \E vc \in VCs : GetManagerEnter(SeqCaller, vc)
    \/ GetManagerInit(SeqCaller)
    \/ GetManagerReturn(SeqCaller)
    \/ \E c \in AllCalls : CallOp(SeqCaller, c)
    \/ ConnectCNSEnter(SeqCaller)
    \/ \E ok \in BOOLEAN, u \in Users : ConnectCNSDial(SeqCaller, ok, u)
    \/ \E ok \in BOOLEAN : UserSession(SeqCaller, ok)
    \/ \E ok \in BOOLEAN : Submit(SeqCaller, ok)
    \/ \E ok \in BOOLEAN : Query(SeqCaller, ok)
    \/ \E ok \in BOOLEAN : GetTaskInfo(SeqCaller, ok)
    \/ \E ok \in BOOLEAN : GetTaskResult(SeqCaller, ok)
    \/ \E ok \in BOOLEAN : LookupDisk(SeqCaller, ok)
    \/ CnsTaskResolve(SeqCaller)
    \/ SessionExpires

Spec == Init /\ [][Next]_vars

\* The steps of a call that the caller takes as soon as the remote side
\* has answered without an error.
Progress(p) ==
    \/ GetManagerInit(p)
    \/ GetManagerReturn(p)
    \/ ConnectCNSEnter(p)
    \/ \E u \in Users : ConnectCNSDial(p, TRUE, u)
    \/ UserSession(p, TRUE)
    \/ Submit(p, TRUE)
    \/ Query(p, TRUE)
    \/ GetTaskInfo(p, TRUE)
    \/ GetTaskResult(p, TRUE)
    \/ LookupDisk(p, TRUE)

\* The caller keeps running; nothing obliges the control plane to finish a
\* task.
FairSpec == Init /\ [][Next]_vars /\ WF_vars(Progress(SeqCaller))

\* Concurrent callers all attaching the same volume to the same VM.
InitRace ==
    /\ onceForManager = "fresh"
    /\ managerInstance = NoManager
    /\ mgr = [p \in Procs |-> NilMgr]
    /\ connection = "none"
    /\ connLock = {}
    /\ sessionUser = ""
    /\ liveSessions = {}
    /\ pc = [p \in Procs |-> "idle"]
    /\ call = [p \in Procs |-> NoCall]
    /\ callerSpec = [p \in Procs |-> NoSpec]
    /\ ctx = [p \in Procs |-> NoCtx]
    /\ loc = [p \in Procs |-> NoLoc]
    /\ log = [p \in Procs |-> << >>]
    /\ ret = [p \in Procs |-> NoRet]
    /\ tasks = [p \in Procs |-> NoTask]
    /\ cnsVolumes = {RaceVolume}
    /\ vmDevices = [vm \in VMs |-> BaseDevices]
    /\ InitE2EIdle

NextRace ==
    \/ \E p \in Procs : GetManagerEnter(p, RaceVC)
    \/ \E p \in Procs : GetManagerInit(p)
    \/ \E p \in Procs : GetManagerReturn(p)
    \/ \E p \in Procs, c \in RaceCalls : CallOp(p, c)
    \/ \E p \in Procs : ConnectCNSEnter(p)
    \/ \E p \in Procs, ok \in BOOLEAN : ConnectCNSDial(p, ok, RaceUser)
    \/ \E p \in Procs, ok \in BOOLEAN : Submit(p, ok)
    \/ \E p \in Procs, ok \in BOOLEAN : GetTaskInfo(p, ok)
    \/ \E p \in Procs, ok \in BOOLEAN : GetTaskResult(p, ok)
    \/ \E p \in Procs, ok \in BOOLEAN : LookupDisk(p, ok)
    \/ \E p \in Procs : CnsTaskResolve(p)
    \/ SessionExpires

RaceSpec == InitRace /\ [][NextRace]_vars

\* Concurrent callers of GetManager, each passing a VirtualCenter of its own
\* choice.
OnceVCs == {"vc-1", "vc-2", "vc-3"}

NextOnce ==
    \/ \E p \in Procs, vc \in OnceVCs : GetManagerEnter(p, vc)
    \/ \E p \in Procs : GetManagerInit(p)
    \/ \E p \in Procs : GetManagerReturn(p)

OnceSpec == Init /\ [][NextOnce]_vars

\* ------------------------------------------------------------------------
\* e2e topology helpers (tests/e2e/util.go)
\* ------------------------------------------------------------------------
\* A string is the sequence of its symbols; a name such as "r1" is one
\* symbol, as are the separators and the blank.
MaxDescLen == 7

Comma == ","
Colon == ":"
Blank == " "
Symbols == {"r1", "z1", Colon, Comma, Blank}

\* "r1:z1,r1:z2,r2:z3"
ExampleTopology == << "r1", ":", "z1", ",", "r1", ":", "z2", ",", "r2", ":", "z3" >>

Descriptors == UNION {[1..n -> Symbols] : n \in 0..MaxDescLen} \cup {ExampleTopology}

regionKey == "region"
zoneKey == "zone"

\* strings.Split(s, sep) with a one-symbol separator: the pieces between
\* the separators, empty pieces included; a string without separator is
\* its own single piece.
RECURSIVE Split(_, _)
Split(s, sep) ==
    IF \A i \in 1..Len(s) : s[i] # sep
      THEN << s >>
      ELSE LET i == CHOOSE k \in 1..Len(s) : s[k] = sep /\ \A j \in 1..(k - 1) : s[j] # sep
           IN  << SubSeq(s, 1, i - 1) >> \o Split(SubSeq(s, i + 1, Len(s)), sep)

\* strings.TrimSpace(s): s without its leading and trailing white space.
RECURSIVE TrimSpace(_)
TrimSpaceNone(s) == s
TrimSpace(s) ==
    IF s = << >> THEN s
    ELSE IF Head(s) = Blank THEN TrimSpace(Tail(s))
    ELSE IF s[Len(s)] = Blank THEN TrimSpace(SubSeq(s, 1, Len(s) - 1))
    ELSE s

\* topologyMap[k] = append(topologyMap[k], v)
MapAppend(m, k, v) ==
    IF k \in DOMAIN m THEN [m EXCEPT ![k] = Append(@, v)] ELSE m @@ (k :> << v >>)

\* The loop of createTopologyMap over the comma-separated items.
RECURSIVE createTopologyMapLoop(_, _, _)
createTopologyMapLoop(items, i, m) ==
    IF i > Len(items) THEN m
    ELSE LET t == TrimSpace(items[i])
             topology == Split(t, Colon)
         IN  IF Len(topology) # 2
               THEN createTopologyMapLoop(items, i + 1, m)
               ELSE createTopologyMapLoop(items, i + 1, MapAppend(m, topology[1], topology[2]))

createTopologyMap(topologyStr) ==
    createTopologyMapLoop(Split(topologyStr, Comma), 1, << >>)

\* "for region, zones := range topologyMap": Go visits the keys of a map in
\* an order it does not specify; every order of the keys is possible.
RangeOrders(m) ==
    {o \in [1..Cardinality(DOMAIN m) -> DOMAIN m] : \A i, j \in DOMAIN o : o[i] = o[j] => i = j}

\* zoneValues = append(zoneValues, zones...)
AppendZonesDedup(zoneVals, zones) ==
    zoneVals \o SelectSeq(zones, LAMBDA z : \A i \in 1..Len(zoneVals) : zoneVals[i] # z)
AppendZones(zoneVals, zones) == zoneVals \o zones

RECURSIVE getValidTopologyLoop(_, _, _, _)
getValidTopologyLoop(m, order, i, acc) ==
    IF i > Len(order) THEN acc
    ELSE getValidTopologyLoop(m, order, i + 1,
            [regionValues |-> Append(acc.regionValues, order[i]),
             zoneValues |-> AppendZones(acc.zoneValues, m[order[i]])])

\* getValidTopology, for the order in which range visits the keys.
getValidTopology(topoMap, order) ==
    getValidTopologyLoop(topoMap, order, 1, [regionValues |-> << >>, zoneValues |-> << >>])

\* allowedTopologies := []v1.TopologySelectorLabelRequirement{{...}, {...}}
BuildAllowedTopologiesNonEmpty(regionVals, zoneVals) ==
    (IF regionVals = << >> THEN << >> ELSE << [Key |-> regionKey, Values |-> regionVals] >>)
    \o (IF zoneVals = << >> THEN << >> ELSE << [Key |-> zoneKey, Values |-> zoneVals] >>)
BuildAllowedTopologies(regionVals, zoneVals) ==
    << [Key |-> regionKey, Values |-> regionVals],
       [Key |-> zoneKey, Values |-> zoneVals] >>

\* topologyParameterForStorageClass(topology)
topologyParameterForStorageClass(order) ==
    /\ tpc = "called"
    /\ LET m == createTopologyMap(topologyString)
           valid == getValidTopology(m, order)
       IN  /\ order \in RangeOrders(m)
           /\ topologyMap' = m
           /\ regionValues' = valid.regionValues
           /\ zoneValues' = valid.zoneValues
           /\ allowedTopologies' = BuildAllowedTopologies(valid.regionValues, valid.zoneValues)
    /\ tpc' = "returned"
    /\ UNCHANGED topologyString
    /\ UNCHANGED verVars
    /\ UNCHANGED volVars

\* The helper is called with any descriptor.
InitTopo ==
    /\ InitVolume
    /\ tpc = "called"
    /\ topologyString \in Descriptors
    /\ InitVerifyIdle
    /\ topologyMap = << >>
    /\ regionValues = << >>
    /\ zoneValues = << >>
    /\ allowedTopologies = << >>

NextTopo ==
    \E order \in RangeOrders(createTopologyMap(topologyString)) :
       topologyParameterForStorageClass(order)

TopoSpec == InitTopo /\ [][NextTopo]_vars

\* ------------------------------------------------------------------------
\* e2e verification helpers (tests/e2e/util.go)
\* ------------------------------------------------------------------------
MaxValues == 2

Domains == {"d1", "d2"}
LabelKeys == {zoneKey, regionKey}

\* NodeSelectorRequirement{Key, Values}
ValueLists == UNION {[1..n -> Domains] : n \in 0..MaxValues}
MatchExpressionSet == {[Key |-> k, Values |-> v] : k \in LabelKeys, v \in ValueLists}
\* NodeSelectorTerm{MatchExpressions}: no, one or two expressions
TermSet ==
    {[MatchExpressions |-> es] :
        es \in {<< >>} \cup {<< e >> : e \in MatchExpressionSet}
               \cup {<< e, f >> : e, f \in MatchExpressionSet}}
SecondTerm == [MatchExpressions |-> << [Key |-> zoneKey, Values |-> << "d2" >>],
                                       [Key |-> regionKey, Values |-> << "d2" >>] >>]

\* pv.Spec.NodeAffinity: nil, without Required, or with Required's terms.
Affinity(terms) == [isNil |-> FALSE, requiredIsNil |-> FALSE, NodeSelectorTerms |-> terms]
NoRequired == [isNil |-> FALSE, requiredIsNil |-> TRUE, NodeSelectorTerms |-> << >>]
AffinitySet ==
    {NoAffinity, NoRequired, Affinity(<< >>)}
    \cup {Affinity(<< t >>) : t \in TermSet}
    \cup {Affinity(<< t, SecondTerm >>) : t \in TermSet}

\* The zoneValues and regionValues of the storage class.
AllowedPairs == { << << >>, << >> >>, << << "d1" >>, << "d1" >> >>,
                  << << "d1", "d2" >>, << "d1" >> >>, << << "d1" >>, << "d2", "d1" >> >> }

\* node.Labels and nodeList.Items
LabelMaps == UNION {[K -> Domains] : K \in SUBSET LabelKeys}
Node(name, labels) == [Name |-> name, Labels |-> labels]
NodeLists ==
    {<< >>}
    \cup {<< Node("n1", l) >> : l \in LabelMaps}
    \cup {<< Node("n1", l), Node("n2", k) >> : l, k \in LabelMaps}
    \cup {<< Node("n2", k), Node("n1", l) >> : l, k \in LabelMaps}

VerifyCalls ==
    {[NoVCall EXCEPT !.op = "verifyVolumeTopology", !.NodeAffinity = a,
                     !.zoneValues = al[1], !.regionValues = al[2]] :
        a \in AffinitySet, al \in AllowedPairs}
    \cup {[NoVCall EXCEPT !.op = "verifyPodLocation", !.NodeName = n, !.nodeList = nl,
                          !.zoneValue = z, !.regionValue = r] :
        n \in {"n1", "n3"}, nl \in NodeLists, z \in {"", "d1"}, r \in {"", "d1"}}
    \cup {[NoVCall EXCEPT !.op = "getTopologyFromPod", !.NodeName = n, !.nodeList = nl] :
        n \in {"n1", "n3"}, nl \in NodeLists}

ErrNoAffinity == "Node Affinity rules for PV should exist in topology aware provisioning"

\* gomega.ContainElement and gomega.Equal
ContainElement(list, value) == \E i \in 1..Len(list) : list[i] = value
Equal(actual, expected) == actual = expected

\* One gomega.Expect(...).To(...): what was asserted and whether it held.
Assertion(subject, value, ok) == [subject |-> subject, value |-> value, ok |-> ok]

\* return "", "", fmt.Errorf(...)
NoAffinityResultNil == [region |-> "", zone |-> "", err |-> Nil]
NoAffinityResult == [region |-> "", zone |-> "", err |-> Err(ErrNoAffinity)]

\* pvZone = value / pvRegion = value
RememberFirst(old, value) == IF old = "" THEN value ELSE old
Remember(old, value) == value

\* The (key, value) pairs the nested loops over MatchExpressions and
\* Values visit, in order.
RECURSIVE Visits(_)
Visits(exprs) ==
    IF exprs = << >> THEN << >>
    ELSE [j \in 1..Len(Head(exprs).Values) |->
             [Key |-> Head(exprs).Key, value |-> Head(exprs).Values[j]]]
         \o Visits(Tail(exprs))

\* The loops of verifyVolumeTopology.  A failed assertion calls gomega's
\* fail handler; when the handler panics (ginkgo.Fail) the helper does not
\* return, otherwise it goes on.
RECURSIVE verifyVolumeTopologyLoop(_, _, _, _, _, _)
verifyVolumeTopologyLoop(visits, i, zoneVals, regionVals, aborts, acc) ==
    IF i > Len(visits) THEN acc
    ELSE LET v == visits[i]
             isZone == v.Key = zoneKey
             ok == IF isZone THEN ContainElement(zoneVals, v.value)
                             ELSE ContainElement(regionVals, v.value)
             made == Append(acc.asserts, Assertion(v.Key, v.value, ok))
         IN  IF v.Key \notin {zoneKey, regionKey}
               THEN verifyVolumeTopologyLoop(visits, i + 1, zoneVals, regionVals, aborts, acc)
             ELSE IF ~ok /\ aborts
               THEN [acc EXCEPT !.state = "aborted", !.asserts = made]
             ELSE verifyVolumeTopologyLoop(visits, i + 1, zoneVals, regionVals, aborts,
                     [acc EXCEPT !.asserts = made,
                                 !.pvZone = IF isZone THEN Remember(@, v.value) ELSE @,
                                 !.pvRegion = IF isZone THEN @ ELSE Remember(@, v.value)])

verifyVolumeTopology(c, aborts) ==
    IF c.NodeAffinity.isNil
      THEN [state |-> "returned", ret |-> NoAffinityResult, asserts |-> << >>]
    ELSE IF c.NodeAffinity.requiredIsNil
      THEN [state |-> "aborted", ret |-> NoVRet, asserts |-> << >>]
    ELSE IF Len(c.NodeAffinity.NodeSelectorTerms) = 0
      THEN [state |-> "returned", ret |-> NoAffinityResult, asserts |-> << >>]
    ELSE LET r == verifyVolumeTopologyLoop(
                     Visits(c.NodeAffinity.NodeSelectorTerms[1].MatchExpressions), 1,
                     c.zoneValues, c.regionValues, aborts,
                     [state |-> "returned", pvZone |-> "", pvRegion |-> "", asserts |-> << >>])
         IN  [state |-> r.state,
              ret |-> IF r.state = "returned"
                        THEN [region |-> r.pvRegion, zone |-> r.pvZone, err |-> Nil]
                        ELSE NoVRet,
              asserts |-> r.asserts]

VerifyVolumeTopology(aborts) ==
    /\ vpc = "called"
    /\ vcall.op = "verifyVolumeTopology"
    /\ LET r == verifyVolumeTopology(vcall, aborts)
       IN  /\ vpc' = r.state
           /\ vret' = r.ret
           /\ asserts' = r.asserts
    /\ UNCHANGED vcall
    /\ UNCHANGED topoVars
    /\ UNCHANGED volVars

\* The nodes of the list the pod is scheduled on.
PodNodes(c) == {i \in 1..Len(c.nodeList) : c.nodeList[i].Name = c.NodeName}

\* "labelKey == zoneKey && zoneValue != \"\"", likewise for the region.
ComparesAlways(labelKey, expected) == labelKey \in {zoneKey, regionKey}
Compares(labelKey, expected) == labelKey \in {zoneKey, regionKey} /\ expected # ""

\* "for labelKey, labelValue := range node.Labels", the keys visited in the
\* given order.
RECURSIVE verifyPodLocationLoop(_, _, _, _, _, _)
verifyPodLocationLoop(labels, order, i, c, aborts, acc) ==
    IF i > Len(order) THEN acc
    ELSE LET labelKey == order[i]
             labelValue == labels[labelKey]
             expected == IF labelKey = zoneKey THEN c.zoneValue ELSE c.regionValue
             ok == Equal(expected, labelValue)
             made == Append(acc.asserts, Assertion(labelKey, labelValue, ok))
         IN  IF ~Compares(labelKey, expected)
               THEN verifyPodLocationLoop(labels, order, i + 1, c, aborts, acc)
             ELSE IF ~ok /\ aborts
               THEN [acc EXCEPT !.state = "aborted", !.asserts = made]
             ELSE verifyPodLocationLoop(labels, order, i + 1, c, aborts,
                                        [acc EXCEPT !.asserts = made])

\* verifyPodLocation: the loop over nodeList.Items, then "return nil".
RECURSIVE verifyPodLocationNodes(_, _, _, _, _)
verifyPodLocationNodes(c, n, orders, aborts, acc) ==
    IF n > Len(c.nodeList) \/ acc.state = "aborted" THEN acc
    ELSE IF c.nodeList[n].Name # c.NodeName
      THEN verifyPodLocationNodes(c, n + 1, orders, aborts, acc)
    ELSE verifyPodLocationNodes(c, n + 1, orders, aborts,
            verifyPodLocationLoop(c.nodeList[n].Labels, orders[n], 1, c, aborts, acc))

verifyPodLocation(c, orders, aborts) ==
    LET r == verifyPodLocationNodes(c, 1, orders, aborts, [state |-> "returned", asserts |-> << >>])
    IN  [state |-> r.state, ret |-> NoVRet, asserts |-> r.asserts]

\* For every node of the list, an order in which range visits its labels.
LabelOrders(c) ==
    {o \in [1..Len(c.nodeList) -> UNION {RangeOrders(l) : l \in LabelMaps}] :
        \A n \in 1..Len(c.nodeList) : o[n] \in RangeOrders(c.nodeList[n].Labels)}

VerifyPodLocation(orders, aborts) ==
    /\ vpc = "called"
    /\ vcall.op = "verifyPodLocation"
    /\ orders \in LabelOrders(vcall)
    /\ LET r == verifyPodLocation(vcall, orders, aborts)
       IN  /\ vpc' = r.state
           /\ vret' = r.ret
           /\ asserts' = r.asserts
    /\ UNCHANGED vcall
    /\ UNCHANGED topoVars
    /\ UNCHANGED volVars

ErrNoTopology == "Could not find the topology from pod"

\* node.Labels[key]: the zero value for a key the map does not have.
LabelValue(labels, key) == IF key \in DOMAIN labels THEN labels[key] ELSE ""

\* getTopologyFromPod: the labels of the first node of the list with the
\* pod's node name, or an error.
RECURSIVE getTopologyFromPodLoop(_, _)
getTopologyFromPodLoop(c, n) ==
    IF n > Len(c.nodeList)
      THEN [region |-> "", zone |-> "", err |-> Err(ErrNoTopology)]
    ELSE IF c.NodeName = c.nodeList[n].Name
      THEN [region |-> LabelValue(c.nodeList[n].Labels, regionKey),
            zone |-> LabelValue(c.nodeList[n].Labels, zoneKey),
            err |-> Nil]
    ELSE getTopologyFromPodLoop(c, n + 1)

getTopologyFromPod(c) == getTopologyFromPodLoop(c, 1)

GetTopologyFromPod ==
    /\ vpc = "called"
    /\ vcall.op = "getTopologyFromPod"
    /\ vret' = getTopologyFromPod(vcall)
    /\ vpc' = "returned"
    /\ UNCHANGED << vcall, asserts >>
    /\ UNCHANGED topoVars
    /\ UNCHANGED volVars

\* A verification helper is called with any arguments.
InitVerify ==
    /\ InitVolume
    /\ InitTopoIdle
    /\ vpc = "called"
    /\ vcall \in VerifyCalls
    /\ asserts = << >>
    /\ vret = NoVRet

NextVerify ==
    \/ \E aborts \in BOOLEAN : VerifyVolumeTopology(aborts)
    \/ \E aborts \in BOOLEAN : \E orders \in LabelOrders(vcall) : VerifyPodLocation(orders, aborts)
    \/ GetTopologyFromPod

VerifySpec == InitVerify /\ [][NextVerify]_vars

\* ------------------------------------------------------------------------
\* Properties
\* ------------------------------------------------------------------------
Done(p, op) == pc[p] = "idle" /\ ret[p].op = op
Logged(p, name, ok) == \E i \in 1..Len(log[p]) : log[p][i] = [call |-> name, ok |-> ok]
LastLogged(p, name, ok) == Len(log[p]) > 0 /\ log[p][Len(log[p])] = [call |-> name, ok |-> ok]
MatchingUUIDs(devs, volumeID) == {devs[i].diskUUID : i \in MatchingDisks(devs, volumeID)}

\* The lookup step of an AttachVolume call whose task result carries the
\* in-use fault, taken while the VM has a virtual disk of the volume.
LookupStepWithDisk(p) ==
    /\ pc[p] = "lookup"
    /\ pc'[p] = "idle"
    /\ call[p].op = "AttachVolume"
    /\ IsInUseFault(loc[p].taskResult.fault)
    /\ MatchingDisks(vmDevices[call[p].vm], call[p].vol) # {}

ReturnsTheDisk(p) ==
    /\ ret'[p].err = Nil
    /\ ret'[p].val \in MatchingUUIDs(vmDevices[call[p].vm], call[p].vol)

\* C1: AttachVolume whose task result carries the in-use fault and whose
\* lookup obtains a device list of the VM that contains a virtual disk with
\* the volume id returns that disk's DiskUUID and a nil error.  (A lookup
\* that fails obtains no device list; the call then returns its error.)
C1_RecoversDiskUUID ==
    [][\A p \in Procs :
          (LookupStepWithDisk(p) /\ log'[p][Len(log'[p])].ok) => ReturnsTheDisk(p)]_vars

C1_Witness ==
    \E p \in Procs :
       /\ Done(p, "AttachVolume")
       /\ LastLogged(p, "GetDiskAttachedToVM", TRUE)
       /\ ret[p].err = Nil
       /\ ret[p].val = BackingUUID(call[p].vol)
       /\ MatchingDisks(vmDevices[call[p].vm], call[p].vol) # {}

\* C2: AttachVolume, in-use fault, no device of the VM has the volume id:
\* the call returns a non-nil error and an empty DiskUUID.
C2_NoFabricatedAttach ==
    [][\A p \in Procs :
          ( /\ pc[p] = "lookup"
            /\ pc'[p] = "idle"
            /\ IsInUseFault(loc[p].taskResult.fault)
            /\ MatchingDisks(vmDevices[call[p].vm], call[p].vol) = {} )
          => (~ret'[p].err.isNil /\ ret'[p].val = "")]_vars

C2_Witness ==
    \E p \in Procs :
       /\ Done(p, "AttachVolume")
       /\ LastLogged(p, "GetDiskAttachedToVM", TRUE)
       /\ MatchingDisks(vmDevices[call[p].vm], call[p].vol) = {}
       /\ ret[p].err = Err(CNSVolumeResourceInUseFaultMessage)
       /\ ret[p].val = ""

\* An AttachVolume call that has returned after it received its task result.
Delivered(p) == Done(p, "AttachVolume") /\ Logged(p, "GetTaskResult", TRUE)
AttachWinner(p) == Delivered(p) /\ tasks[p].result.kind = "ok"
AttachLoser(p) ==
    /\ Delivered(p)
    /\ tasks[p].result.kind = "fault"
    /\ IsInUseFault(tasks[p].result.fault)
SameOutcome(p, q) ==
    /\ ret[p].err = Nil
    /\ ret[q].err = Nil
    /\ ret[p].val = ret[q].val

\* C3: of two AttachVolume calls for the same VM and volume, in any
\* interleaving, one whose task attached the volume and one whose task was
\* answered with the in-use fault and which re-queried the VM's devices:
\* both return a nil error, and the DiskUUID recovered from the devices is
\* the DiskUUID the fresh attach returned.
C3_AttachIdempotent ==
    \A p \in Procs, q \in Procs :
       ( /\ p # q
         /\ AttachWinner(p)
         /\ AttachLoser(q)
         /\ LastLogged(q, "GetDiskAttachedToVM", TRUE) )
       => SameOutcome(p, q)

C3_Witness ==
    \E p \in Procs, q \in Procs :
       /\ p # q
       /\ AttachWinner(p)
       /\ AttachLoser(q)
       /\ LastLogged(q, "GetDiskAttachedToVM", TRUE)
       /\ ret[q].err = Nil
       /\ ret[q].val = BackingUUID(RaceVolume)
       /\ ret[p].val = ret[q].val

\* C4: the spec CreateVolume / UpdateVolumeMetadata hand to the control
\* plane carries the UserName of the session read in that call.
C4_SubmittedUserIsSessionUser ==
    \A p \in Procs :
       (pc[p] \in {"await", "result"} /\ call[p].op \in SpecOps)
       => /\ Len(tasks[p].batch) = 1
          /\ tasks[p].batch[1].VSphereUser = loc[p].s
          /\ loc[p].s \in Users

C4_Witness ==
    \E p \in Procs :
       /\ pc[p] = "await"
       /\ call[p].op = "CreateVolume"
       /\ call[p].spec.VSphereUser = "svc-a"
       /\ loc[p].s = "svc-b"
       /\ tasks[p].batch[1].VSphereUser = "svc-b"

\* C5: concurrent first-use calls of ConnectCNS: at most one caller logs in
\* at a time, it does so only while there is no live connection, and no
\* second session comes to exist.
C5_ConnectOnce ==
    /\ Cardinality({p \in Procs : pc[p] = "cc_dial"}) <= 1
    /\ Cardinality(liveSessions) <= 1
    /\ \A p \in Procs : pc[p] = "cc_dial" => (connection # "live" /\ connLock = {p})

C5_Witness ==
    \E p \in Procs, q \in Procs :
       /\ p # q
       /\ liveSessions = {p}
       /\ pc[p] = "submit"
       /\ pc[q] = "submit"
       /\ log[p] = << [call |-> "ConnectCNS", ok |-> TRUE] >>
       /\ log[q] = << [call |-> "ConnectCNS", ok |-> TRUE] >>

\* C7 as stated: every call of an operation eventually returns, also when
\* the remote task never reaches a terminal state.
C7_AsClaimed ==
    \A p \in Procs : (pc[p] = "await") ~> (pc[p] = "idle")

\* C8: CreateVolume whose task yields a result without Fault returns a nil
\* error and the VolumeId.Id of that result.
C8_CreateReturnsResultId ==
    \A p \in Procs :
       ( /\ Done(p, "CreateVolume")
         /\ Logged(p, "GetTaskResult", TRUE)
         /\ tasks[p].result.kind = "ok" )
       => (ret[p].err = Nil /\ ret[p].val = tasks[p].result.volumeId)

C8_Witness ==
    \E p \in Procs :
       /\ Done(p, "CreateVolume")
       /\ Logged(p, "GetTaskResult", TRUE)
       /\ tasks[p].result.kind = "ok"
       /\ ret[p].err = Nil
       /\ ret[p].val \in Volumes
       /\ ret[p].val \in cnsVolumes

\* C9: an operation called on a manager that fails validation returns the
\* configuration error at once: no connection attempt, no session lookup,
\* no submission, no query.
C9_ValidateFailsFast ==
    \A p \in Procs :
       (mgr[p] # NilMgr /\ ~validateManager(managerInstance).isNil)
       => /\ pc[p] \in {"idle", "gm_ret"}
          /\ tasks[p] = NoTask
          /\ ret[p].op \in AllOps =>
                /\ ret[p].err = Err(ErrManagerNotInitialized)
                /\ ret[p].val = ""
                /\ ret[p].res = {}
                /\ log[p] = << >>

C9_Witness ==
    \E p \in Procs :
       /\ Done(p, "QueryVolume")
       /\ ret[p].err = Err(ErrManagerNotInitialized)
       /\ log[p] = << >>
       /\ connection = "none"

\* C10: when ConnectCNS fails the operation returns that error at once:
\* ConnectCNS was called once, nothing was submitted and nothing queried.
C10_ConnectFailureReturns ==
    \A p \in Procs :
       Logged(p, "ConnectCNS", FALSE)
       => /\ pc[p] = "idle"
          /\ log[p] = << [call |-> "ConnectCNS", ok |-> FALSE] >>
          /\ ret[p].op \in AllOps
          /\ ret[p].err = Err(ErrConnect)
          /\ ret[p].val = ""
          /\ ret[p].res = {}
          /\ tasks[p] = NoTask

C10_Witness ==
    \E p \in Procs :
       /\ Done(p, "DetachVolume")
       /\ log[p] = << [call |-> "ConnectCNS", ok |-> FALSE] >>
       /\ ret[p].err = Err(ErrConnect)

\* ------------------------------------------------------------------------
\* C11..C17: submission, classification of the task result, errors
\* ------------------------------------------------------------------------
CountLogged(p, names) == Cardinality({i \in 1..Len(log[p]) : log[p][i].call \in names})
DoneTaskOp(p) == \E op \in TaskOps : Done(p, op)
ResultDelivered(p) == DoneTaskOp(p) /\ Logged(p, "GetTaskResult", TRUE)

\* C11: No retries.  Within one call the request is handed to the CNS
\* client at most once, and a call whose submission failed has returned the
\* submission error at once: the failed submission is its last remote
\* interaction, nothing was polled and no task exists.
C11_NoRetry ==
    \A p \in Procs :
       /\ CountLogged(p, {"Submit", "Query"}) <= 1
       /\ Logged(p, "Submit", FALSE)
          => /\ pc[p] = "idle"
             /\ LastLogged(p, "Submit", FALSE)
             /\ ret[p].err = Err(ErrTransport)
             /\ ret[p].val = ""
             /\ tasks[p] = NoTask
             /\ CountLogged(p, {"GetTaskInfo", "GetTaskResult"}) = 0

C11_Witness ==
    \E p \in Procs :
       /\ Done(p, "DeleteVolume")
       /\ LastLogged(p, "Submit", FALSE)
       /\ ret[p].err = Err(ErrTransport)

\* C12: A call of one of the five task operations whose await step
\* delivered a nil task result returns the error "taskResult is empty" and
\* no value; it never returns success.
C12_EmptyResultIsError ==
    \A p \in Procs :
       (ResultDelivered(p) /\ tasks[p].result.kind = "nil")
       => /\ ret[p].err = Err(ErrEmptyTaskResult)
          /\ ret[p].val = ""
          /\ LastLogged(p, "GetTaskResult", TRUE)

C12_Witness ==
    \E p \in Procs :
       /\ Done(p, "UpdateVolumeMetadata")
       /\ Logged(p, "GetTaskResult", TRUE)
       /\ tasks[p].result.kind = "nil"
       /\ ret[p].err = Err(ErrEmptyTaskResult)

\* C13: DetachVolume, DeleteVolume and UpdateVolumeMetadata never recover
\* from a fault: a call whose task result carries a Fault returns an error
\* with the Fault's message, whatever the message is, and makes no device
\* lookup.  Only AttachVolume ever reaches the lookup.
NoRecoveryOps == {"DetachVolume", "DeleteVolume", "UpdateVolumeMetadata"}

C13_FaultIsError ==
    \A p \in Procs :
       /\ pc[p] = "lookup" => call[p].op = "AttachVolume"
       /\ (ResultDelivered(p) /\ ret[p].op \in NoRecoveryOps /\ tasks[p].result.kind = "fault")
          => /\ ret[p].err = Err(tasks[p].result.fault)
             /\ ~ret[p].err.isNil
             /\ ret[p].val = ""
             /\ LastLogged(p, "GetTaskResult", TRUE)

C13_Witness ==
    \E p \in Procs :
       /\ Done(p, "DetachVolume")
       /\ Logged(p, "GetTaskResult", TRUE)
       /\ tasks[p].result.kind = "fault"
       /\ IsInUseFault(tasks[p].result.fault)
       /\ ret[p].err = Err(CNSVolumeResourceInUseFaultMessage)
       /\ MatchingDisks(vmDevices[call[p].vm], call[p].vol) # {}

\* C14: The batch of every submitted request has exactly one element, and
\* the element is built from the arguments of the call.
Submitted(p) == pc[p] \in {"await", "result", "lookup"}

FromArguments(e, c) ==
    CASE c.op = "CreateVolume" ->
           /\ e.Name = c.spec.Name
           /\ e.VolumeId = c.spec.VolumeId
           /\ e.ClusterId = c.spec.ClusterId
           /\ e.Vm = ""
      [] c.op = "UpdateVolumeMetadata" ->
           /\ e.VolumeId = c.spec.VolumeId
           /\ e.ClusterId = c.spec.ClusterId
           /\ e.Vm = ""
      [] c.op \in {"AttachVolume", "DetachVolume"} ->
           /\ e.VolumeId = c.vol
           /\ e.Vm = c.vm
      [] OTHER ->
           /\ e.VolumeId = c.vol
           /\ e.Vm = ""

C14_SingleElementBatch ==
    \A p \in Procs :
       Submitted(p)
       => /\ tasks[p].op = call[p].op
          /\ Len(tasks[p].batch) = 1
          /\ FromArguments(tasks[p].batch[1], call[p])
          /\ tasks[p].deleteDisk = call[p].deleteDisk

C14_Witness ==
    \E p \in Procs :
       /\ pc[p] = "await"
       /\ call[p].op = "DetachVolume"
       /\ tasks[p].batch = << BatchElem("", call[p].vol, call[p].vm, "", "") >>

\* C15: A task that reached Succeeded or Faulted keeps its state and its
\* result for as long as the caller holds it, the result is classified only
\* once the task is terminal, and a call that returned success or an error
\* taken from the task result did so after its task had become terminal.
TaskKept(p) ==
    tasks[p].state \in Terminal => tasks'[p] \in {tasks[p], NoTask}

ReturnedAfterTerminal(p) ==
    /\ pc[p] \in {"result", "lookup"} => tasks[p].state \in Terminal
    /\ (DoneTaskOp(p) /\ (ret[p].err.isNil \/ Logged(p, "GetTaskResult", TRUE)))
       => /\ tasks[p].state \in Terminal
          /\ Logged(p, "Submit", TRUE)
          /\ Logged(p, "GetTaskInfo", TRUE)

C15_TaskLifecycle ==
    [][\A p \in Procs : TaskKept(p) /\ ReturnedAfterTerminal(p) /\ ReturnedAfterTerminal(p)']_vars

C15_Witness ==
    \E p \in Procs :
       /\ Done(p, "CreateVolume")
       /\ ret[p].err.isNil
       /\ tasks[p].state = "succeeded"

\* C16: A call whose task result carries a Fault never returns the error
\* value that a call with an empty task result returns.
C16_AsClaimed ==
    \A p \in Procs :
       (ResultDelivered(p) /\ tasks[p].result.kind = "fault")
       => ret[p].err # Err(ErrEmptyTaskResult)

\* C17: The error returned for a Fault on AttachVolume or DetachVolume
\* carries the volume id, the VM reference, the activation id and the
\* fault's code besides its message.
Carries(e, field) == field \in DOMAIN e

C17_AsClaimed ==
    \A p \in Procs :
       (ResultDelivered(p) /\ ret[p].op \in {"AttachVolume", "DetachVolume"}
          /\ tasks[p].result.kind = "fault" /\ ~ret[p].err.isNil)
       => /\ Carries(ret[p].err, "volumeId")
          /\ Carries(ret[p].err, "vm")
          /\ Carries(ret[p].err, "activationId")
          /\ Carries(ret[p].err, "code")

\* ------------------------------------------------------------------------
\* C18..C20: createTopologyMap and getValidTopology
\* ------------------------------------------------------------------------
Least(S) == CHOOSE x \in S : \A y \in S : x <= y
Greatest(S) == CHOOSE x \in S : \A y \in S : y <= x
Range(f) == {f[i] : i \in DOMAIN f}
Occurrences(f, x) == Cardinality({i \in DOMAIN f : f[i] = x})

\* The items of a descriptor lie between its commas and its two ends; an
\* item is named by the position just before its first symbol.
ItemBounds(s) == {0, Len(s) + 1} \cup {i \in 1..Len(s) : s[i] = Comma}
ItemStarts(s) == {a \in ItemBounds(s) : a <= Len(s)}
ItemFrom(s, a) == SubSeq(s, a + 1, Least({b \in ItemBounds(s) : b > a}) - 1)

\* An item without the blanks around it.
Trimmed(x) ==
    LET solid == {i \in 1..Len(x) : x[i] # Blank}
    IN  IF solid = {} THEN << >> ELSE SubSeq(x, Least(solid), Greatest(solid))

\* A trimmed item with exactly one colon is a region:zone pair.
Colons(t) == {i \in 1..Len(t) : t[i] = Colon}
IsPair(t) == Cardinality(Colons(t)) = 1
RegionOf(t) == SubSeq(t, 1, Least(Colons(t)) - 1)
ZoneOf(t) == SubSeq(t, Least(Colons(t)) + 1, Len(t))

PairStarts(s) == {a \in ItemStarts(s) : IsPair(Trimmed(ItemFrom(s, a)))}
PairStartsOf(s, r) == {a \in PairStarts(s) : RegionOf(Trimmed(ItemFrom(s, a))) = r}
RegionsOf(s) == {RegionOf(Trimmed(ItemFrom(s, a))) : a \in PairStarts(s)}
ZonesInOrder(s, r) ==
    LET S == PairStartsOf(s, r)
    IN  [k \in 1..Cardinality(S) |->
            ZoneOf(Trimmed(ItemFrom(s, CHOOSE a \in S : Cardinality({b \in S : b < a}) = k - 1)))]

\* C18: For every descriptor, the map createTopologyMap returns has as
\* keys exactly the regions of the items that, trimmed, are r:z pairs, and
\* maps each region to the zones of its pairs in the order of the input;
\* every other item contributes nothing.
C18_ParsesPairs ==
    tpc = "returned"
    => /\ DOMAIN topologyMap = RegionsOf(topologyString)
       /\ \A r \in DOMAIN topologyMap : topologyMap[r] = ZonesInOrder(topologyString, r)

C18_Witness ==
    /\ tpc = "returned"
    /\ topologyString = ExampleTopology
    /\ topologyMap = (<< "r1" >> :> << << "z1" >>, << "z2" >> >>) @@ (<< "r2" >> :> << << "z3" >> >>)

\* C19: On "r1:z1,r1:z2,r2:z3" the helper returns regionValues [r1,r2],
\* zoneValues [z1,z2,z3] and the two terms with these lists, on every run.
C19_AsClaimed ==
    (tpc = "returned" /\ topologyString = ExampleTopology)
    => /\ regionValues = << << "r1" >>, << "r2" >> >>
       /\ zoneValues = << << "z1" >>, << "z2" >>, << "z3" >> >>
       /\ allowedTopologies = << [Key |-> regionKey, Values |-> << << "r1" >>, << "r2" >> >>],
                                 [Key |-> zoneKey, Values |-> << << "z1" >>, << "z2" >>, << "z3" >> >>] >>

\* C20: regionValues holds every key of the map exactly once and nothing
\* else; zoneValues holds every zone as often as the lists of the map hold
\* it, so its length is the sum of the lengths of the lists.
ZonePlaces(m) == UNION {{<< r, i >> : i \in 1..Len(m[r])} : r \in DOMAIN m}
ZonePlacesOf(m, z) == {pl \in ZonePlaces(m) : m[pl[1]][pl[2]] = z}

C20_FlattenKeepsAll ==
    tpc = "returned"
    => /\ Range(regionValues) = DOMAIN topologyMap
       /\ Len(regionValues) = Cardinality(DOMAIN topologyMap)
       /\ Len(zoneValues) = Cardinality(ZonePlaces(topologyMap))
       /\ \A z \in Range(zoneValues) \cup UNION {Range(topologyMap[r]) : r \in DOMAIN topologyMap} :
             Occurrences(zoneValues, z) = Cardinality(ZonePlacesOf(topologyMap, z))

C20_Witness ==
    /\ tpc = "returned"
    /\ \E r1, r2 \in DOMAIN topologyMap :
          /\ r1 # r2
          /\ \E z \in Range(topologyMap[r1]) \cap Range(topologyMap[r2]) :
                Occurrences(zoneValues, z) = 2

\* ------------------------------------------------------------------------
\* C21: the allowed topologies
\* ------------------------------------------------------------------------
\* C21: For every descriptor the third value returned has exactly two
\* terms: the first has the region key and the returned regionValues, the
\* second the zone key and the returned zoneValues, also when both lists
\* are empty.
C21_TwoTerms ==
    tpc = "returned"
    => /\ Len(allowedTopologies) = 2
       /\ allowedTopologies[1] = [Key |-> regionKey, Values |-> regionValues]
       /\ allowedTopologies[2] = [Key |-> zoneKey, Values |-> zoneValues]

C21_Witness ==
    /\ tpc = "returned"
    /\ topologyString # << >>
    /\ topologyMap = << >>
    /\ regionValues = << >>
    /\ zoneValues = << >>
    /\ Len(allowedTopologies) = 2

\* ------------------------------------------------------------------------
\* C22..C24: verifyVolumeTopology and verifyPodLocation
\* ------------------------------------------------------------------------
VerifyDone(op) == vcall.op = op /\ vpc \in {"returned", "aborted"}
AllPassed == \A i \in 1..Len(asserts) : asserts[i].ok

\* The volume has no node affinity or its node selector has no term.
NoTerms(c) ==
    \/ c.NodeAffinity.isNil
    \/ ~c.NodeAffinity.requiredIsNil /\ Len(c.NodeAffinity.NodeSelectorTerms) = 0
HasTerms(c) ==
    /\ ~c.NodeAffinity.isNil
    /\ ~c.NodeAffinity.requiredIsNil
    /\ Len(c.NodeAffinity.NodeSelectorTerms) > 0

FirstExprs(c) == c.NodeAffinity.NodeSelectorTerms[1].MatchExpressions
Places(es) == UNION {{<< i, j >> : j \in 1..Len(es[i].Values)} : i \in 1..Len(es)}
Before(a, b) == a[1] < b[1] \/ (a[1] = b[1] /\ a[2] < b[2])
Rank(es, pl) == Cardinality({q \in Places(es) : Before(q, pl)}) + 1
PlacesOf(es, key) == {pl \in Places(es) : es[pl[1]].Key = key}
LastValueOf(es, key) ==
    IF PlacesOf(es, key) = {} THEN ""
    ELSE LET pl == CHOOSE a \in PlacesOf(es, key) : \A b \in PlacesOf(es, key) : ~Before(a, b)
         IN  es[pl[1]].Values[pl[2]]
AllowedFor(c, key) == IF key = zoneKey THEN c.zoneValues ELSE c.regionValues

\* C23: On a volume with at least one term verifyVolumeTopology asserts,
\* for every value of every zone or region expression of the first term and
\* for nothing else, that the value is in the list allowed for its key; when
\* all assertions pass it returns the last region value, the last zone
\* value ("" when the key does not occur) and no error, and each non-empty
\* value returned is in its allowed list.
C23_FirstTermOnly ==
    (vpc = "returned" /\ vcall.op = "verifyVolumeTopology" /\ HasTerms(vcall))
    => LET es == FirstExprs(vcall)
       IN  /\ Len(asserts) = Cardinality(Places(es))
           /\ \A pl \in Places(es) :
                 asserts[Rank(es, pl)] =
                    Assertion(es[pl[1]].Key, es[pl[1]].Values[pl[2]],
                              ContainElement(AllowedFor(vcall, es[pl[1]].Key), es[pl[1]].Values[pl[2]]))
           /\ AllPassed
              => /\ vret = [region |-> LastValueOf(es, regionKey),
                            zone |-> LastValueOf(es, zoneKey), err |-> Nil]
                 /\ vret.region # "" => ContainElement(vcall.regionValues, vret.region)
                 /\ vret.zone # "" => ContainElement(vcall.zoneValues, vret.zone)

C23_Witness ==
    /\ vpc = "returned"
    /\ vcall.op = "verifyVolumeTopology"
    /\ Len(vcall.NodeAffinity.NodeSelectorTerms) = 2
    /\ vcall.zoneValues = << "d1", "d2" >>
    /\ FirstExprs(vcall) = << [Key |-> zoneKey, Values |-> << "d1", "d2" >>],
                              [Key |-> regionKey, Values |-> << "d1" >>] >>
    /\ AllPassed
    /\ vret = [region |-> "d1", zone |-> "d2", err |-> Nil]

\* The pod's node has a zone (region) label that differs from the expected
\* non-empty zone (region).
Mismatch(c) ==
    \E n \in PodNodes(c) :
       LET labels == c.nodeList[n].Labels
       IN  \/ zoneKey \in DOMAIN labels /\ c.zoneValue # "" /\ labels[zoneKey] # c.zoneValue
           \/ regionKey \in DOMAIN labels /\ c.regionValue # "" /\ labels[regionKey] # c.regionValue

\* C24: On a mismatch between a label of the pod's node and the expected
\* non-empty zone or region verifyPodLocation returns an error.
C24_AsClaimed ==
    (VerifyDone("verifyPodLocation") /\ Mismatch(vcall))
    => /\ vpc = "returned"
       /\ ~vret.err.isNil

\* ------------------------------------------------------------------------
\* C25..C29: the manager's operations, continued
\* ------------------------------------------------------------------------
\* The call received a task result that is not nil and carries no Fault.
CleanResult(p) == Logged(p, "GetTaskResult", TRUE) /\ tasks[p].result.kind = "ok"

\* The call received the in-use fault, looked the disk up and found one.
RecoveredAttach(p) ==
    /\ Logged(p, "GetTaskResult", TRUE)
    /\ tasks[p].result.kind = "fault"
    /\ IsInUseFault(tasks[p].result.fault)
    /\ LastLogged(p, "GetDiskAttachedToVM", TRUE)
    /\ ret[p].val # ""

\* C25: CreateVolume, DetachVolume, DeleteVolume and UpdateVolumeMetadata
\* return a nil error only after a task result that is not nil and has no
\* Fault; AttachVolume returns a nil error only then or after the in-use
\* fault and a device lookup that gave a non-empty DiskUUID.
C25_NoFabricatedSuccess ==
    \A p \in Procs :
       (DoneTaskOp(p) /\ ret[p].err.isNil)
       => \/ CleanResult(p)
          \/ ret[p].op = "AttachVolume" /\ RecoveredAttach(p)

C25_Witness ==
    \E p \in Procs :
       /\ Done(p, "DetachVolume")
       /\ ret[p].err.isNil
       /\ CleanResult(p)
       /\ MatchingDisks(vmDevices[call[p].vm], call[p].vol) = {}

\* The call is past ConnectCNS.
PastConnect(p) == pc[p] \in {"session", "submit", "await", "result", "lookup"}

ConnectFirst(p) ==
    /\ log[p] # << >> => log[p][1].call = "ConnectCNS"
    /\ CountLogged(p, {"ConnectCNS"}) <= 1
    /\ PastConnect(p) => (log[p] # << >> /\ log[p][1] = [call |-> "ConnectCNS", ok |-> TRUE])
    /\ (\E op \in AllOps : Done(p, op)) /\ ret[p].err # Err(ErrManagerNotInitialized)
       => log[p] # << >>

\* The step in which ConnectCNS returns without error leaves a live
\* connection.
ConnectedWhenLeaving(p) ==
    (pc[p] \in {"connect", "cc_dial"} /\ PastConnect(p)') => connection' = "live"

\* C26: In every call of every operation ConnectCNS is the first remote
\* interaction and is made once, on every call and not only on the first
\* one; when it returns without error the connection is live, also when it
\* had gone stale since an earlier call.
C26_ConnectBeforeAnything ==
    [][\A p \in Procs : ConnectFirst(p) /\ ConnectFirst(p)' /\ ConnectedWhenLeaving(p)]_vars

\* A later call finds the connection stale and logs in again.
C26_Witness ==
    \E p \in Procs :
       /\ pc[p] = "cc_dial"
       /\ call[p].op = "QueryAllVolume"
       /\ connection = "stale"
       /\ cnsVolumes # {}
       /\ log[p] = << >>

\* C27: An AttachVolume call whose device lookup failed returns the
\* lookup's error and an empty DiskUUID, and such a lookup is made only
\* after the in-use fault; after a Fault with any other message the devices
\* are not looked up and the call returns the Fault's message as error.
C27_LookupFailureAndOtherFaults ==
    \A p \in Procs :
       /\ (pc[p] = "lookup" \/ CountLogged(p, {"GetDiskAttachedToVM"}) > 0)
          => /\ call[p].op = "AttachVolume"
             /\ tasks[p].result.kind = "fault"
             /\ tasks[p].result.fault = CNSVolumeResourceInUseFaultMessage
       /\ (Done(p, "AttachVolume") /\ Logged(p, "GetDiskAttachedToVM", FALSE))
          => /\ ret[p].err = Err(ErrDevice)
             /\ ret[p].val = ""
       /\ ( /\ Done(p, "AttachVolume")
            /\ Logged(p, "GetTaskResult", TRUE)
            /\ tasks[p].result.kind = "fault"
            /\ tasks[p].result.fault # CNSVolumeResourceInUseFaultMessage )
          => /\ LastLogged(p, "GetTaskResult", TRUE)
             /\ ret[p].err = Err(tasks[p].result.fault)
             /\ ret[p].val = ""

\* The lookup fails although the VM has the disk.
C27_Witness ==
    \E p \in Procs :
       /\ Done(p, "AttachVolume")
       /\ LastLogged(p, "GetDiskAttachedToVM", FALSE)
       /\ tasks[p].result.fault = CNSVolumeResourceInUseFaultMessage
       /\ MatchingDisks(vmDevices[call[p].vm], call[p].vol) # {}
       /\ ret[p].err = Err(ErrDevice)
       /\ ret[p].val = ""

\* C28: A CreateVolume or UpdateVolumeMetadata call whose UserSession
\* failed has returned that error, has submitted nothing and has left the
\* caller's spec as it was passed.
C28_SessionFailureReturns ==
    \A p \in Procs :
       Logged(p, "UserSession", FALSE)
       => /\ pc[p] = "idle"
          /\ ret[p].op \in SpecOps
          /\ LastLogged(p, "UserSession", FALSE)
          /\ ret[p].err = Err(ErrSession)
          /\ ret[p].val = ""
          /\ tasks[p] = NoTask
          /\ callerSpec[p] = call[p].spec

C28_Witness ==
    \E p \in Procs :
       /\ Done(p, "UpdateVolumeMetadata")
       /\ log[p] = << [call |-> "ConnectCNS", ok |-> TRUE], [call |-> "UserSession", ok |-> FALSE] >>
       /\ ret[p].err = Err(ErrSession)
       /\ callerSpec[p].VSphereUser # sessionUser

\* The spec of the current or last call of p, if it is one with a spec.
SpecCall(p) == call[p].op \in SpecOps /\ (pc[p] # "idle" \/ Done(p, call[p].op))
SameButUser(a, b) == a.Name = b.Name /\ a.VolumeId = b.VolumeId /\ a.ClusterId = b.ClusterId

\* C29: In CreateVolume and UpdateVolumeMetadata the caller's spec object
\* differs from what was passed at most in VSphereUser, which is the session's
\* UserName once the session was read, also after the call has returned with
\* an error; the element submitted has the fields of the caller's spec
\* object, hence is the spec as passed when its user was the session's.
C29_OnlyUserCorrected ==
    \A p \in Procs :
       SpecCall(p)
       => /\ SameButUser(callerSpec[p], call[p].spec)
          /\ IF Logged(p, "UserSession", TRUE)
               THEN callerSpec[p].VSphereUser = sessionUser
               ELSE callerSpec[p] = call[p].spec
          /\ tasks[p].state # "none"
             => /\ SameButUser(tasks[p].batch[1], call[p].spec)
                /\ tasks[p].batch[1].VSphereUser = callerSpec[p].VSphereUser
                /\ tasks[p].batch[1].Vm = ""
                /\ call[p].spec.VSphereUser = sessionUser => callerSpec[p] = call[p].spec

C29_Witness ==
    \E p \in Procs :
       /\ Done(p, "CreateVolume")
       /\ ~ret[p].err.isNil
       /\ tasks[p].state # "none"
       /\ call[p].spec.VSphereUser = "svc-a"
       /\ callerSpec[p] = [call[p].spec EXCEPT !.VSphereUser = "svc-b"]

\* ------------------------------------------------------------------------
\* C30: GetManager
\* ------------------------------------------------------------------------
\* The initializer runs in a step that takes a caller out of "gm_init".
InitializerStep(p) == pc[p] = "gm_init" /\ pc'[p] # "gm_init"

\* Whoever holds a manager holds the one initialized instance.
HoldsTheInstance(p) ==
    (mgr[p] # NilMgr \/ ret[p].op = "GetManager")
    => /\ onceForManager = "done"
       /\ managerInstance # NoManager
       /\ mgr[p] = managerInstance.id
       /\ ret[p].op = "GetManager" => ret[p].val = managerInstance.id

\* C30: Under every interleaving of GetManager calls the initializer runs
\* once, binding the instance to the VirtualCenter of the call that runs
\* it; the instance never changes afterwards, whatever VirtualCenter later
\* calls pass; every call returns that instance and none returns before it
\* is initialized.
C30_OnceOnly ==
    [][ /\ managerInstance # NoManager => managerInstance' = managerInstance
        /\ \A p \in Procs :
              /\ InitializerStep(p)
                 => /\ managerInstance = NoManager
                    /\ managerInstance' = [id |-> TheManager, virtualCenter |-> call[p].vc]
              /\ HoldsTheInstance(p)
              /\ HoldsTheInstance(p)'
        /\ Cardinality({p \in Procs : pc[p] = "gm_init"}) <= 1 ]_vars

\* Two calls passed different VirtualCenters and got the same manager, bound
\* to the first one's.
C30_Witness ==
    \E p \in Procs, q \in Procs :
       /\ p # q
       /\ Done(p, "GetManager")
       /\ Done(q, "GetManager")
       /\ call[p].vc # call[q].vc
       /\ managerInstance.virtualCenter = call[p].vc
       /\ ret[p].val = TheManager
       /\ ret[q].val = TheManager

\* ------------------------------------------------------------------------
\* C31: verifyPodLocation with nothing to compare, getTopologyFromPod
\* ------------------------------------------------------------------------
\* No node of the list is the pod's, or the pod's node has neither label,
\* or no zone and no region is expected.
NothingToCompare(c) ==
    \/ PodNodes(c) = {}
    \/ \A n \in PodNodes(c) : DOMAIN c.nodeList[n].Labels \cap {zoneKey, regionKey} = {}
    \/ c.zoneValue = "" /\ c.regionValue = ""

\* C31: verifyPodLocation returns nil without any assertion when no node of
\* the list has the pod's node name, when the pod's node has neither a zone
\* nor a region label, and when both expected values are empty.
\* getTopologyFromPod returns an error when no node of the list has the pod's
\* node name and otherwise the region and zone labels of that node.
C31_VacuousPassAndLookup ==
    /\ (VerifyDone("verifyPodLocation") /\ NothingToCompare(vcall))
       => /\ vpc = "returned"
          /\ vret.err.isNil
          /\ asserts = << >>
    /\ VerifyDone("getTopologyFromPod")
       => /\ vpc = "returned"
          /\ asserts = << >>
          /\ IF PodNodes(vcall) = {}
               THEN ~vret.err.isNil /\ vret.region = "" /\ vret.zone = ""
               ELSE \E n \in PodNodes(vcall) :
                       LET labels == vcall.nodeList[n].Labels
                       IN  /\ vret.err.isNil
                           /\ vret.region = (IF regionKey \in DOMAIN labels THEN labels[regionKey] ELSE "")
                           /\ vret.zone = (IF zoneKey \in DOMAIN labels THEN labels[zoneKey] ELSE "")

\* The pod's node is labelled, but neither a zone nor a region is expected.
C31_Witness ==
    /\ VerifyDone("verifyPodLocation")
    /\ vcall.zoneValue = ""
    /\ vcall.regionValue = ""
    /\ \E n \in PodNodes(vcall) : DOMAIN vcall.nodeList[n].Labels = {zoneKey, regionKey}
    /\ vpc = "returned"
    /\ vret.err.isNil
    /\ asserts = << >>

====
